---- MODULE Spec2Model ----
(***************************************************************************)
(* TrainRWRDiffusionAgent.run (agent/finetune/train_rwr_diffusion_agent.py) *)
(* as a state machine: one loop iteration is BeginIteration, n_steps times  *)
(* RolloutStep, Segment, Update, then per epoch Epoch and its Minibatch     *)
(* steps, and FinishIteration.                                              *)
(*                                                                          *)
(* Data (observations, sampled action chunks, rewards, returns, weights)    *)
(* is carried as provenance tags: where and when the value was produced.    *)
(* Python locals of run() live for the whole call, so a name assigned in an *)
(* earlier iteration keeps its value; `bound` is the set of locals that     *)
(* have been assigned, and reading one that is not raises                   *)
(* UnboundLocalError, which ends the run (pc = "crashed").                  *)
(***************************************************************************)
EXTENDS Integers, Sequences, FiniteSets, TLC

\* ---- bounds of the model ------------------------------------------------
MaxSteps == 3
MaxItr == 3
MaxFreq == 3
MaxBatch == 3
MaxEpochs == 2
NumSeeds == 2

VARIABLES
  cfg,                  \* the configuration read through self.*
  pc, error,            \* position in run(); the exception that ended it
  itr,                  \* self.itr
  bound,                \* names of run()'s locals that are assigned
  done_venv, last_itr_eval, eval_mode, options_venv,
  firsts_trajs, prev_obs_venv, obs_trajs, samples_trajs, reward_trajs, step,
  episodes_start_end, num_episode_finished,
  obs_trajs_split, samples_trajs_split, returns_trajs_split,
  obs_k, samples_k, rewards_k_scaled, total_steps, inds_k,
  epoch, num_batch, batch, loss,
  model_mode, params, sched_steps, saved_at,   \* model, optimizer, scheduler, checkpoints
  run_results, result_file,
  file_writes,          \* what each pickle.dump put in the results file, in order
  reset_calls,          \* options of the reset_env_all calls of this iteration
  loss_calls, opt_steps, last_call, epoch_batches,  \* calls of this iteration
  params_begin, executed                       \* history of the run

cfgVars == <<cfg>>
rolloutVars == <<done_venv, firsts_trajs, prev_obs_venv, obs_trajs, samples_trajs,
                 reward_trajs, step>>
modeVars == <<last_itr_eval, eval_mode, options_venv, model_mode, reset_calls>>
segVars == <<episodes_start_end, num_episode_finished, obs_trajs_split,
             samples_trajs_split, returns_trajs_split>>
flatVars == <<obs_k, samples_k, rewards_k_scaled, total_steps>>
batchVars == <<inds_k, epoch, num_batch, batch, epoch_batches>>
trainVars == <<loss, params, loss_calls, opt_steps, last_call>>
endVars == <<sched_steps, saved_at, run_results, result_file, file_writes, executed>>
vars == <<cfgVars, pc, error, itr, bound, rolloutVars, modeVars, segVars, flatVars,
          batchVars, trainVars, endVars, params_begin>>

\* ---- helpers -------------------------------------------------------------
Max(a, b) == IF a >= b THEN a ELSE b
Min(a, b) == IF a <= b THEN a ELSE b

\* Python s[a:b] on a 0-based array held as a sequence: the end is clamped.
Slice(s, a, b) == SubSeq(s, a + 1, Min(b, Len(s)))

\* np.concatenate of a list of arrays
RECURSIVE Concatenate(_)
Concatenate(ss) == IF ss = <<>> THEN <<>> ELSE Head(ss) \o Concatenate(Tail(ss))

\* np.arange(n)
Arange(n) == [i \in 1..n |-> i - 1]

Envs(c) == 0..(c.n_envs - 1)

\* ---- configurations ------------------------------------------------------
\* The fields of cfg that run() reads.  Each family below lets the parameters
\* of one concern range over their bounds together and holds the others at
\* BaseConfig; ExampleConfigs are the shapes of the spec's worked examples
\* (2 envs x 5 steps with batch sizes 3 and 4, 1 env x 6 steps).
EnvCounts == {1, 2}

BaseConfig ==
  [n_envs |-> 1, n_steps |-> 2, n_train_itr |-> MaxItr, val_freq |-> MaxFreq,
   force_train |-> FALSE, reset_at_iteration |-> FALSE,
   save_model_freq |-> 2, log_freq |-> 2, render_freq |-> 2,
   render_video |-> TRUE, n_render |-> 1, batch_size |-> 1, update_epochs |-> 1]

\* the loop: budget, mode selection, reset or carry
LoopConfigs ==
  { [BaseConfig EXCEPT !.n_train_itr = n, !.val_freq = vf, !.force_train = ft,
                       !.reset_at_iteration = ra, !.n_steps = ns] :
      n \in 0..MaxItr, vf \in 1..MaxFreq, ft \in BOOLEAN, ra \in BOOLEAN,
      ns \in 1..MaxSteps }

\* one iteration over every buffer shape and minibatch layout
ShapeConfigs ==
  { [BaseConfig EXCEPT !.n_envs = ne, !.n_steps = ns, !.batch_size = bs,
                       !.update_epochs = ue, !.force_train = ft,
                       !.reset_at_iteration = TRUE, !.n_train_itr = 1] :
      ne \in EnvCounts, ns \in 1..MaxSteps, bs \in 1..MaxBatch, ue \in 1..MaxEpochs,
      ft \in BOOLEAN }

\* checkpoints
SaveConfigs ==
  { [BaseConfig EXCEPT !.save_model_freq = sf, !.n_train_itr = n, !.val_freq = vf] :
      sf \in 1..MaxFreq, n \in 0..MaxItr, vf \in 1..MaxFreq }

\* result records
LogConfigs ==
  { [BaseConfig EXCEPT !.log_freq = lf, !.val_freq = vf] :
      lf \in 1..MaxFreq, vf \in 1..MaxFreq }

\* recordings
RenderConfigs ==
  { [BaseConfig EXCEPT !.render_freq = rf, !.render_video = rv, !.n_render = nr,
                       !.n_envs = 2, !.reset_at_iteration = ra] :
      rf \in 1..MaxFreq, rv \in BOOLEAN, nr \in 0..2, ra \in BOOLEAN }

ExampleConfigs ==
  { [BaseConfig EXCEPT !.n_envs = 2, !.n_steps = 5, !.n_train_itr = 1,
                       !.force_train = TRUE, !.reset_at_iteration = TRUE,
                       !.batch_size = bs] : bs \in 3..4 }
  \cup { [BaseConfig EXCEPT !.n_envs = 1, !.n_steps = 6, !.n_train_itr = 1] }

Configs == LoopConfigs \cup ShapeConfigs \cup SaveConfigs \cup LogConfigs
           \cup RenderConfigs \cup ExampleConfigs

\* ---- provenance tags -----------------------------------------------------
NoObs == [src |-> "none", itr |-> 0, step |-> 0]
ResetObs(i) == [src |-> "reset", itr |-> i, step |-> 0]
StepObs(i, t) == [src |-> "step", itr |-> i, step |-> t]
NoLoss == [itr |-> -1, epoch |-> 0, batch |-> 0]
NoCall == [samples |-> <<>>, obs |-> <<>>, weights |-> <<>>]

Zeros(c) == [e \in Envs(c) |-> 0]
OnesRow(c) == [e \in Envs(c) |-> 1]

Init ==
  /\ cfg \in Configs
  /\ pc = "while" /\ error = "" /\ itr = 0 /\ bound = {"done_venv"}
  /\ done_venv = Zeros(cfg)
  /\ last_itr_eval = FALSE /\ eval_mode = FALSE
  /\ options_venv = [e \in Envs(cfg) |-> <<>>]
  /\ firsts_trajs = [t \in 0..cfg.n_steps |-> Zeros(cfg)]
  /\ prev_obs_venv = NoObs
  /\ obs_trajs = <<>> /\ samples_trajs = <<>> /\ reward_trajs = <<>> /\ step = 0
  /\ episodes_start_end = <<>> /\ num_episode_finished = 0
  /\ obs_trajs_split = <<>> /\ samples_trajs_split = <<>> /\ returns_trajs_split = <<>>
  /\ obs_k = <<>> /\ samples_k = <<>> /\ rewards_k_scaled = <<>> /\ total_steps = 0
  /\ inds_k = <<>> /\ epoch = 0 /\ num_batch = 0 /\ batch = 0 /\ loss = NoLoss
  /\ model_mode = "train" /\ params = 0 /\ sched_steps = 0 /\ saved_at = <<>>
  /\ run_results = <<>> /\ result_file = <<>> /\ file_writes = <<>>
  /\ reset_calls = <<>>
  /\ loss_calls = 0 /\ opt_steps = 0 /\ last_call = NoCall /\ epoch_batches = <<>>
  /\ params_begin = 0 /\ executed = <<>>

\* ---- Episode Segmenter (lines 125-132) -------------------------------------
\* np.where(firsts_trajs[:, env_ind] == 1)[0]: the rows t..last holding a 1
RECURSIVE Where(_, _, _, _)
Where(firsts, env_ind, t, last) ==
  IF t > last THEN <<>>
  ELSE (IF firsts[t][env_ind] = 1 THEN <<t>> ELSE <<>>)
       \o Where(firsts, env_ind, t + 1, last)

\* EpisodeOf with the length test off by one: adjacent markers give a segment
EpisodeOfAdjacent(env_ind, start, end) ==
  IF end - start > 0 THEN << <<env_ind, start, end - 1>> >> ELSE <<>>

\* EpisodeOf keeping the row of the closing marker
EpisodeOfInclusive(env_ind, start, end) ==
  IF end - start > 1 THEN << <<env_ind, start, end>> >> ELSE <<>>

\* lines 131-132: what one pair of consecutive markers contributes
EpisodeOf(env_ind, start, end) ==
  IF end - start > 1 THEN << <<env_ind, start, end - 1>> >> ELSE <<>>

\* lines 128-132: i runs over range(len(env_steps) - 1); env_steps is 1-based here
RECURSIVE EnvEpisodes(_, _, _)
EnvEpisodes(env_ind, env_steps, i) ==
  IF i >= Len(env_steps) - 1 THEN <<>>
  ELSE EpisodeOf(env_ind, env_steps[i + 1], env_steps[i + 2])
       \o EnvEpisodes(env_ind, env_steps, i + 1)

\* lines 125-132: env_ind runs over range(n_envs)
RECURSIVE EpisodesFrom(_, _, _, _)
EpisodesFrom(firsts, env_ind, n_envs, n_steps) ==
  IF env_ind >= n_envs THEN <<>>
  ELSE EnvEpisodes(env_ind, Where(firsts, env_ind, 0, n_steps), 0)
       \o EpisodesFrom(firsts, env_ind + 1, n_envs, n_steps)

EpisodesStartEnd(firsts, n_envs, n_steps) == EpisodesFrom(firsts, 0, n_envs, n_steps)

\* trajs[start : end + 1, env_ind] (lines 135-146)
SplitOf(trajs, ep) ==
  LET rows == Slice(trajs, ep[2], ep[3] + 1)
  IN [j \in 1..Len(rows) |-> [row |-> rows[j], env |-> ep[1]]]

SplitAll(trajs, eps) == [k \in 1..Len(eps) |-> SplitOf(trajs, eps[k])]

\* lines 150-162: the return at offset t of a segment is built from the segment's
\* rewards t..n, the reward at offset j weighted gamma^j; norm counts normalisations
ReturnsOf(rewards, ep) ==
  LET rows == Slice(rewards, ep[2], ep[3] + 1)
  IN [j \in 1..Len(rows) |->
        [rew |-> rows[j], env |-> ep[1], t |-> j - 1, n |-> Len(rows) - 1, norm |-> 0]]

ReturnsAll(rewards, eps) ==
  Concatenate([k \in 1..Len(eps) |-> ReturnsOf(rewards, eps[k])])

\* lines 204-206: (returns - mean) / (std + 1e-3), on the whole vector
Normalize(returns) == [j \in 1..Len(returns) |-> [returns[j] EXCEPT !.norm = @ + 1]]

\* lines 215-216: exp(beta * r) clamped to max_reward_weight, elementwise
Weights(rewards_k) == [j \in 1..Len(rewards_k) |-> [weight_of |-> rewards_k[j]]]

\* ---- minibatches (lines 221-234) -------------------------------------------
\* np.random.shuffle is a Fisher-Yates pass over the array, i = n-1 .. 1, each
\* position swapped with a drawn j in 0..i.  The generator is numpy's global
\* one; its stream is one of NumSeeds streams here.
Draw(seed, i) == (seed + i) % (i + 1)

Swap(s, a, b) == [s EXCEPT ![a] = s[b], ![b] = s[a]]

RECURSIVE FisherYates(_, _, _)
FisherYates(s, seed, i) ==
  IF i < 1 THEN s ELSE FisherYates(Swap(s, i + 1, Draw(seed, i) + 1), seed, i - 1)

Shuffle(s, seed) == FisherYates(s, seed, Len(s) - 1)

\* NumBatch counting the partial batch as well
NumBatchWithRemainder(total, batch_size) == total \div batch_size + 1

\* line 227
NumBatch(total, batch_size) == Max(1, total \div batch_size)

\* IndsB with the slice end one too far
IndsBOneMore(inds, b, batch_size) ==
  Slice(inds, b * batch_size, b * batch_size + batch_size + 1)

\* lines 229-231: inds_k[start:end] of minibatch `batch`
IndsB(inds, b, batch_size) == Slice(inds, b * batch_size, b * batch_size + batch_size)

\* x[inds_b] (lines 232-234)
Take(x, inds_b) == [j \in 1..Len(inds_b) |-> x[inds_b[j] + 1]]

\* ---- per-iteration decisions -----------------------------------------------
\* EvalMode without the force-train override
EvalModeNoOverride(c, i) == i % c.val_freq = 0

\* line 69
EvalMode(c, i) == i % c.val_freq = 0 /\ ~c.force_train

\* lines 61-66
VideoPath(i, env_ind) == <<i, env_ind>>

OptionsVenv(c, i) ==
  [e \in Envs(c) |->
     IF i % c.render_freq = 0 /\ c.render_video /\ e < c.n_render
     THEN VideoPath(i, e) ELSE <<>>]

\* line 74; `or` evaluates last_itr_eval only when the first two are false
ResetTestRaises(c, ev, bnd) ==
  ~c.reset_at_iteration /\ ~ev /\ "last_itr_eval" \notin bnd

ResetAtStart(c, ev, last) == c.reset_at_iteration \/ ev \/ last

\* line 254
SaveNow(c, i) == i % c.save_model_freq = 0 \/ i = c.n_train_itr - 1

\* LogNow on every iteration
LogNowAlways(c, i) == TRUE

\* line 263
LogNow(c, i) == i % c.log_freq = 0

\* DoUpdate in every mode
DoUpdateAlways(ev) == TRUE

\* line 187
DoUpdate(ev) == ~ev

\* ---- the loop of run() ------------------------------------------------------
Raise(msg) == pc' = "crashed" /\ error' = msg

\* lines 58-93: the loop test passes; mode, options, buffers, reset or carry
BeginIteration ==
  /\ pc = "while" /\ itr < cfg.n_train_itr
  /\ LET ev == EvalMode(cfg, itr)
         opts == OptionsVenv(cfg, itr)
         zeros == [t \in 0..cfg.n_steps |-> Zeros(cfg)]
     IN /\ options_venv' = opts
        /\ eval_mode' = ev
        /\ model_mode' = IF ev THEN "eval" ELSE "train"
        /\ IF ResetTestRaises(cfg, ev, bound)
           THEN /\ Raise("UnboundLocalError: last_itr_eval")
                /\ firsts_trajs' = zeros
                /\ reset_calls' = <<>>
                /\ UNCHANGED <<bound, done_venv, last_itr_eval, prev_obs_venv,
                               obs_trajs, samples_trajs, reward_trajs, step>>
           ELSE /\ IF ResetAtStart(cfg, ev, last_itr_eval)
                   THEN /\ prev_obs_venv' = ResetObs(itr)
                        /\ reset_calls' = <<opts>>
                        /\ firsts_trajs' = [zeros EXCEPT ![0] = OnesRow(cfg)]
                        /\ bound' = bound \cup {"prev_obs_venv", "last_itr_eval"}
                   ELSE /\ firsts_trajs' = [zeros EXCEPT ![0] = done_venv]
                        /\ reset_calls' = <<>>
                        /\ bound' = bound \cup {"last_itr_eval"}
                        /\ UNCHANGED prev_obs_venv
                /\ last_itr_eval' = ev
                /\ reward_trajs' = <<>> /\ obs_trajs' = <<>> /\ samples_trajs' = <<>>
                /\ step' = 0
                /\ pc' = "rollout"
                /\ UNCHANGED <<error, done_venv>>
  /\ loss_calls' = 0 /\ opt_steps' = 0 /\ last_call' = NoCall /\ epoch_batches' = <<>>
  /\ params_begin' = params
  /\ UNCHANGED <<cfgVars, itr, segVars, flatVars, inds_k, epoch, num_batch, batch,
                 loss, params, endVars>>

\* line 58: the loop test fails
ExitLoop ==
  /\ pc = "while" /\ ~(itr < cfg.n_train_itr)
  /\ pc' = "done"
  /\ UNCHANGED <<cfgVars, error, itr, bound, rolloutVars, modeVars, segVars, flatVars,
                 batchVars, trainVars, endVars, params_begin>>

\* RolloutStep writing the done vector to the boundary row of the step itself
RolloutStepMarksOwnRow ==
  /\ pc = "rollout" /\ step < cfg.n_steps
  /\ "prev_obs_venv" \in bound
  /\ \E d \in [Envs(cfg) -> {0, 1}] :
       /\ obs_trajs' = Append(obs_trajs, prev_obs_venv)
       /\ samples_trajs' = Append(samples_trajs,
            [itr |-> itr, step |-> step, deterministic |-> eval_mode])
       /\ reward_trajs' = Append(reward_trajs, [itr |-> itr, step |-> step])
       /\ firsts_trajs' = [firsts_trajs EXCEPT ![step] = d]
       /\ done_venv' = d
       /\ prev_obs_venv' = StepObs(itr, step)
       /\ step' = step + 1
  /\ UNCHANGED <<cfgVars, pc, error, itr, bound, modeVars, segVars, flatVars,
                 batchVars, trainVars, endVars, params_begin>>

\* lines 96-122: one decision step; the environment answers any done vector
RolloutStep ==
  /\ pc = "rollout" /\ step < cfg.n_steps
  /\ IF "prev_obs_venv" \notin bound
     THEN /\ Raise("UnboundLocalError: prev_obs_venv")
          /\ UNCHANGED rolloutVars
     ELSE \E d \in [Envs(cfg) -> {0, 1}] :
            /\ obs_trajs' = Append(obs_trajs, prev_obs_venv)
            /\ samples_trajs' = Append(samples_trajs,
                 [itr |-> itr, step |-> step, deterministic |-> eval_mode])
            /\ reward_trajs' = Append(reward_trajs, [itr |-> itr, step |-> step])
            /\ firsts_trajs' = [firsts_trajs EXCEPT ![step + 1] = d]
            /\ done_venv' = d
            /\ prev_obs_venv' = StepObs(itr, step)
            /\ step' = step + 1
            /\ UNCHANGED <<pc, error>>
  /\ UNCHANGED <<cfgVars, itr, bound, modeVars, segVars, flatVars, batchVars,
                 trainVars, endVars, params_begin>>

\* lines 125-184: the rollout is over; episodes, their transitions and returns
Segment ==
  /\ pc = "rollout" /\ ~(step < cfg.n_steps)
  /\ LET eps == EpisodesStartEnd(firsts_trajs, cfg.n_envs, cfg.n_steps)
     IN /\ episodes_start_end' = eps
        /\ num_episode_finished' = Len(eps)
        /\ IF Len(eps) > 0
           THEN /\ obs_trajs_split' = SplitAll(obs_trajs, eps)
                /\ samples_trajs_split' = SplitAll(samples_trajs, eps)
                /\ returns_trajs_split' = ReturnsAll(reward_trajs, eps)
                /\ bound' = bound \cup {"obs_trajs_split", "samples_trajs_split",
                                        "returns_trajs_split"}
           ELSE UNCHANGED <<obs_trajs_split, samples_trajs_split,
                            returns_trajs_split, bound>>
  /\ pc' = "update"
  /\ UNCHANGED <<cfgVars, error, itr, rolloutVars, modeVars, flatVars, batchVars,
                 trainVars, endVars, params_begin>>

\* lines 187-222: in training mode, flatten, normalise and weight
Update ==
  /\ pc = "update"
  /\ IF ~DoUpdate(eval_mode)
     THEN /\ pc' = "finish"
          /\ UNCHANGED <<error, returns_trajs_split, flatVars, inds_k, epoch>>
     ELSE IF "obs_trajs_split" \notin bound
     THEN /\ Raise("UnboundLocalError: obs_trajs_split")
          /\ UNCHANGED <<returns_trajs_split, flatVars, inds_k, epoch>>
     ELSE /\ obs_k' = Concatenate(obs_trajs_split)
          /\ samples_k' = Concatenate(samples_trajs_split)
          /\ returns_trajs_split' = Normalize(returns_trajs_split)
          /\ rewards_k_scaled' = Weights(returns_trajs_split')
          /\ total_steps' = Len(rewards_k_scaled')
          /\ inds_k' = Arange(total_steps')
          /\ epoch' = 0
          /\ pc' = "epoch"
          /\ UNCHANGED error
  /\ UNCHANGED <<cfgVars, itr, bound, rolloutVars, modeVars, episodes_start_end,
                 num_episode_finished, obs_trajs_split, samples_trajs_split,
                 num_batch, batch, epoch_batches, trainVars, endVars, params_begin>>

\* lines 223-227: an epoch begins with a shuffle
Epoch ==
  /\ pc = "epoch"
  /\ \E seed \in 0..(NumSeeds - 1) : inds_k' = Shuffle(inds_k, seed)
  /\ num_batch' = NumBatch(total_steps, cfg.batch_size)
  /\ batch' = 0
  /\ epoch_batches' = <<>>
  /\ pc' = "batch"
  /\ UNCHANGED <<cfgVars, error, itr, bound, rolloutVars, modeVars, segVars, flatVars,
                 epoch, trainVars, endVars, params_begin>>

\* lines 228-248: one minibatch: loss, backward, optimizer step
Minibatch ==
  /\ pc = "batch"
  /\ LET inds_b == IndsB(inds_k, batch, cfg.batch_size)
     IN /\ last_call' = [samples |-> Take(samples_k, inds_b),
                         obs |-> Take(obs_k, inds_b),
                         weights |-> Take(rewards_k_scaled, inds_b)]
        /\ epoch_batches' = Append(epoch_batches, inds_b)
  /\ loss' = [itr |-> itr, epoch |-> epoch, batch |-> batch]
  /\ bound' = bound \cup {"loss"}
  /\ loss_calls' = loss_calls + 1
  /\ opt_steps' = opt_steps + 1
  /\ params' = params + 1
  /\ IF batch + 1 < num_batch
     THEN batch' = batch + 1 /\ UNCHANGED <<pc, epoch>>
     ELSE /\ epoch' = epoch + 1
          /\ pc' = IF epoch + 1 < cfg.update_epochs THEN "epoch" ELSE "finish"
          /\ UNCHANGED batch
  /\ UNCHANGED <<cfgVars, error, itr, rolloutVars, modeVars, segVars, flatVars,
                 inds_k, num_batch, endVars, params_begin>>

\* lines 250-301: scheduler, checkpoint, result record, counter
ResultKeys(ev, logged) ==
  {"itr"} \cup (IF ~logged THEN {}
                ELSE IF ev
                THEN {"eval_success_rate", "eval_episode_reward", "eval_best_reward", "time"}
                ELSE {"loss", "train_episode_reward", "time"})

FinishIteration ==
  /\ pc = "finish"
  /\ sched_steps' = sched_steps + 1
  /\ saved_at' = IF SaveNow(cfg, itr) THEN Append(saved_at, itr) ELSE saved_at
  /\ IF LogNow(cfg, itr) /\ ~eval_mode /\ "loss" \notin bound
     THEN /\ Raise("UnboundLocalError: loss")
          /\ run_results' = Append(run_results, [itr |-> itr, keys |-> {"itr"}])
          /\ UNCHANGED <<result_file, file_writes, itr, executed>>
     ELSE /\ run_results' = Append(run_results,
               [itr |-> itr, keys |-> ResultKeys(eval_mode, LogNow(cfg, itr))])
          /\ result_file' = IF LogNow(cfg, itr) THEN run_results' ELSE result_file
          /\ file_writes' = IF LogNow(cfg, itr) THEN Append(file_writes, run_results')
                            ELSE file_writes
          /\ itr' = itr + 1
          /\ executed' = Append(executed, itr)
          /\ pc' = "while"
          /\ UNCHANGED error
  /\ UNCHANGED <<cfgVars, bound, rolloutVars, modeVars, segVars, flatVars, batchVars,
                 trainVars, params_begin>>

Next ==
  \/ BeginIteration
  \/ ExitLoop
  \/ RolloutStep
  \/ Segment
  \/ Update
  \/ Epoch
  \/ Minibatch
  \/ FinishIteration

Spec == Init /\ [][Next]_vars

\* ---- the claims --------------------------------------------------------------
\* The current iteration has been segmented: episodes_start_end is this
\* iteration's (the update may have raised since).
Segmented ==
  \/ pc \in {"update", "epoch", "batch", "finish"}
  \/ pc = "crashed" /\ error = "UnboundLocalError: obs_trajs_split"

\* The iteration with index itr has begun and is over before reaching itr += 1.
Aborted == pc = "crashed"

\* C1: a training-mode iteration whose rollout gives zero episode segments
\* performs no policy update (no loss call, no optimizer step) and does not
\* fail; the run goes on to the next iteration.
C1_ZeroSegmentsSkipUpdate ==
  (Segmented /\ ~eval_mode /\ Len(episodes_start_end) = 0)
    => (loss_calls = 0 /\ opt_steps = 0 /\ ~Aborted)

\* C2: in an evaluation-mode iteration, whatever the segments, there is no
\* loss call and no optimizer step, and the parameters the optimizer steps
\* produce are those the iteration began with.
C2_EvalNeverUpdates ==
  eval_mode => (loss_calls = 0 /\ opt_steps = 0 /\ params = params_begin)

C2_Witness ==
  /\ pc = "while" /\ itr > 0 /\ eval_mode
  /\ num_episode_finished > 0 /\ params > 0

\* C3: iteration i is in evaluation mode iff i mod val_freq = 0 and force_train
\* is not set, the model is put in the matching mode, and every sampling of
\* the iteration's rollout is deterministic exactly in evaluation mode.
C3_ModeSelection ==
  (pc \notin {"while", "done"}) =>
    /\ eval_mode <=> (itr % cfg.val_freq = 0 /\ ~cfg.force_train)
    /\ model_mode = (IF itr % cfg.val_freq = 0 /\ ~cfg.force_train
                     THEN "eval" ELSE "train")
    /\ \A k \in 1..Len(samples_trajs) :
         /\ samples_trajs[k].itr = itr
         /\ samples_trajs[k].deterministic
              <=> (itr % cfg.val_freq = 0 /\ ~cfg.force_train)

C3_Witness ==
  /\ pc = "finish" /\ cfg.force_train /\ itr % cfg.val_freq = 0
  /\ ~eval_mode /\ Len(samples_trajs) = cfg.n_steps
  /\ \A k \in 1..Len(samples_trajs) : ~samples_trajs[k].deterministic

\* C4: from counter 0 and budget N, for every configuration and environment
\* behaviour the run stops only by leaving the loop with the counter at N,
\* having executed the loop body for 0, 1, .., N-1 once each in that order.
C4_RunCompletes ==
  /\ ~Aborted
  /\ executed = [i \in 1..itr |-> i - 1]
  /\ itr <= cfg.n_train_itr
  /\ pc = "done" => itr = cfg.n_train_itr

Count(seq, x) == Cardinality({k \in 1..Len(seq) : seq[k] = x})

\* the iterations the run has been through: completed, or begun and aborted
IterationsOver == 0..(itr - 1) \cup (IF Aborted THEN {itr} ELSE {})

\* C5: the model is saved in iteration i iff i mod save_model_freq = 0 or i is
\* the last iteration (i = n_train_itr - 1), once at most; a run that reaches
\* its last iteration saves the model in it.
C5_SavedIffDue ==
  \A i \in IterationsOver :
    Count(saved_at, i) =
      (IF i % cfg.save_model_freq = 0 \/ i = cfg.n_train_itr - 1 THEN 1 ELSE 0)

\* C6: the learning-rate scheduler is stepped exactly once in every iteration,
\* whatever the mode and the number of segments, epochs and minibatches.
C6_SchedulerOncePerIteration ==
  /\ pc \in {"while", "done"} => sched_steps = itr
  /\ Aborted => sched_steps = itr + 1
  /\ pc \in {"rollout", "update", "epoch", "batch", "finish"} => sched_steps = itr

\* C7: at the start of an iteration all environments are reset and boundary
\* row 0 is all ones iff reset_at_iteration is set or this or the preceding
\* iteration is in evaluation mode; otherwise nothing is reset, row 0 is the
\* done vector of the preceding iteration's last step, and the rollout goes
\* on from that step's observations.
IterationStarted ==
  \/ pc = "rollout" /\ step = 0
  \/ pc = "crashed" /\ error = "UnboundLocalError: last_itr_eval"

C7_ResetOrCarry ==
  IterationStarted =>
    IF \/ cfg.reset_at_iteration
       \/ (itr % cfg.val_freq = 0 /\ ~cfg.force_train)
       \/ (itr > 0 /\ (itr - 1) % cfg.val_freq = 0 /\ ~cfg.force_train)
    THEN /\ pc = "rollout"
         /\ Len(reset_calls) = 1
         /\ \A e \in Envs(cfg) : firsts_trajs[0][e] = 1
         /\ prev_obs_venv = ResetObs(itr)
    ELSE /\ pc = "rollout"
         /\ Len(reset_calls) = 0
         /\ itr > 0
         /\ firsts_trajs[0] = done_venv
         /\ prev_obs_venv = StepObs(itr - 1, cfg.n_steps - 1)

\* the marker rows of column e, and the pairs of consecutive markers
Markers(e) == {t \in 0..cfg.n_steps : firsts_trajs[t][e] = 1}

ConsecutiveMarkers(e) ==
  LET ms == Markers(e)
  IN {st \in ms \X ms : st[1] < st[2] /\ ~\E u \in ms : st[1] < u /\ u < st[2]}

ExpectedSegments ==
  UNION { { <<e, st[1], st[2] - 1>> : st \in {x \in ConsecutiveMarkers(e) : x[2] - x[1] > 1} }
          : e \in Envs(cfg) }

EnvMajorThenStart(a, b) == a[1] < b[1] \/ (a[1] = b[1] /\ a[2] < b[2])

OneEnvExample ==
  /\ cfg.n_envs = 1 /\ cfg.n_steps = 6
  /\ [t \in 0..6 |-> firsts_trajs[t][0]] = [t \in 0..6 |-> IF t \in {0, 3, 4, 6} THEN 1 ELSE 0]

\* C8: the segmenter emits exactly the triples (env, s, t-1) of the consecutive
\* marker pairs (s, t) of a column with t - s > 1, env-major and then by
\* increasing start; nothing when no such pair exists; [1,0,0,1,1,0,1] gives
\* (0,0,2), (0,4,5) and not (0,3,3).
C8_Segmenter ==
  (pc \in {"update", "epoch", "batch", "finish"}) =>
    LET eps == episodes_start_end
        expected == ExpectedSegments
    IN /\ {eps[k] : k \in 1..Len(eps)} = expected
       /\ \A k, l \in 1..Len(eps) : k < l => EnvMajorThenStart(eps[k], eps[l])
       /\ num_episode_finished = Cardinality(expected)
       /\ (\A e \in Envs(cfg) : \A st \in ConsecutiveMarkers(e) : st[2] - st[1] <= 1)
            => eps = <<>>
       /\ OneEnvExample => eps = << <<0, 0, 2>>, <<0, 4, 5>> >>

C8_Witness ==
  /\ pc = "update" /\ OneEnvExample
  /\ episodes_start_end = << <<0, 0, 2>>, <<0, 4, 5>> >>

\* the transitions this iteration's segments retain
RECURSIVE SegmentLengths(_)
SegmentLengths(eps) ==
  IF eps = <<>> THEN 0 ELSE (Head(eps)[3] - Head(eps)[2] + 1) + SegmentLengths(Tail(eps))

Retained == SegmentLengths(episodes_start_end)

InUpdate == pc \in {"epoch", "batch", "finish"} /\ ~eval_mode

\* the minibatches of the current epoch have all run
EpochComplete == InUpdate /\ (pc = "finish" \/ (pc = "epoch" /\ epoch > 0))

Elements(seq) == {seq[j] : j \in 1..Len(seq)}

\* C9 as stated: every minibatch holds exactly batch_size transition indices
C9_FullBatches ==
  (InUpdate /\ Retained > 0) =>
    \A k \in 1..Len(epoch_batches) : Len(epoch_batches[k]) = cfg.batch_size

\* C9, amended: with total > 0 retained transitions an epoch runs
\* max(1, total div batch_size) minibatch updates, every minibatch holds
\* min(batch_size, total) indices, the minibatches of an epoch are pairwise
\* disjoint subsets of 0..total-1, and the iteration makes
\* update_epochs * max(1, total div batch_size) updates; total = 10 and
\* batch_size = 4 give 2 batches of 4 covering 8 indices.
C9_Minibatches ==
  (InUpdate /\ Retained > 0) =>
    LET total == Retained
        per_epoch == IF total \div cfg.batch_size >= 1
                     THEN total \div cfg.batch_size ELSE 1
        size == IF cfg.batch_size <= total THEN cfg.batch_size ELSE total
        done_epochs == IF pc = "finish" THEN cfg.update_epochs ELSE epoch
        in_epoch == IF pc = "batch" THEN Len(epoch_batches) ELSE 0
    IN /\ total_steps = total
       /\ \A k \in 1..Len(epoch_batches) :
            /\ Len(epoch_batches[k]) = size
            /\ Cardinality(Elements(epoch_batches[k])) = size
            /\ Elements(epoch_batches[k]) \subseteq 0..(total - 1)
            /\ \A l \in 1..Len(epoch_batches) :
                 k # l => Elements(epoch_batches[k]) \cap Elements(epoch_batches[l]) = {}
       /\ Len(epoch_batches) <= per_epoch
       /\ EpochComplete => Len(epoch_batches) = per_epoch
       /\ loss_calls = done_epochs * per_epoch + in_epoch
       /\ opt_steps = loss_calls
       /\ pc = "finish" => loss_calls = cfg.update_epochs * per_epoch
       /\ (EpochComplete /\ total = 10 /\ cfg.batch_size = 4) =>
            /\ Len(epoch_batches) = 2
            /\ Cardinality(UNION {Elements(epoch_batches[k]) : k \in 1..2}) = 8

C9_Witness ==
  /\ pc = "finish" /\ ~eval_mode /\ Retained = 10 /\ cfg.batch_size = 4
  /\ Len(epoch_batches) = 2 /\ loss_calls = 2
  /\ inds_k # Arange(10)

\* the spec's end-to-end case: 2 envs, 5 steps, one segment of length 3 in env 0
EndToEndCase ==
  /\ cfg.n_envs = 2 /\ cfg.n_steps = 5
  /\ ~eval_mode /\ cfg.update_epochs = 1 /\ cfg.batch_size >= 3
  /\ pc = "finish"
  /\ Len(episodes_start_end) = 1
  /\ episodes_start_end[1][1] = 0
  /\ episodes_start_end[1][3] - episodes_start_end[1][2] + 1 = 3

\* C10: in the end-to-end case the iteration makes exactly one loss call, on
\* exactly the 3 transitions of the env-0 segment, observations, sampled
\* chunks and weights co-indexed, none of env 1.
C10_EndToEnd ==
  EndToEndCase =>
    LET s == episodes_start_end[1][2]
        rows == s..(s + 2)
        \* the buffer row the j-th transition of the call comes from
        From(j, t) == last_call.obs[j] = [row |-> obs_trajs[t + 1], env |-> 0]
        RowOf(j) == IF \E t \in rows : From(j, t)
                    THEN CHOOSE t \in rows : From(j, t) ELSE -1
    IN /\ loss_calls = 1 /\ opt_steps = 1
       /\ Len(last_call.obs) = 3 /\ Len(last_call.samples) = 3
       /\ Len(last_call.weights) = 3
       /\ {RowOf(j) : j \in 1..3} = rows
       /\ \A j \in 1..3 :
            /\ last_call.obs[j].env = 0
            /\ last_call.samples[j] = [row |-> samples_trajs[RowOf(j) + 1], env |-> 0]
            /\ last_call.weights[j].weight_of.rew = reward_trajs[RowOf(j) + 1]
            /\ last_call.weights[j].weight_of.env = 0
            /\ last_call.weights[j].weight_of.t = RowOf(j) - s

C10_Witness ==
  /\ EndToEndCase /\ cfg.batch_size = 4
  /\ episodes_start_end = << <<0, 1, 3>> >>
  /\ loss_calls = 1 /\ Len(last_call.obs) = 3
  /\ \E t \in 1..5 : firsts_trajs[t][1] = 1

IsPrefix(a, b) == Len(a) <= Len(b) /\ a = SubSeq(b, 1, Len(a))

\* the completed iterations that were logging iterations
LoggedIterations == {i \in 0..(itr - 1) : i % cfg.log_freq = 0}

\* C11: every write puts the whole in-memory list of that moment in the file:
\* there is one write per logging iteration, the write of logging iteration i
\* holds the records of iterations 0..i as the list still holds them, the
\* file is the latest write, every earlier write is a prefix of every later
\* one, and the records are in strictly increasing iteration order.
C11_ResultsFile ==
  LET n == Cardinality(LoggedIterations)
  IN /\ Len(file_writes) = n
     /\ \A k \in 1..Len(file_writes) :
          /\ Len(file_writes[k]) = (k - 1) * cfg.log_freq + 1
          /\ IsPrefix(file_writes[k], run_results)
          /\ \A l \in 1..Len(file_writes) :
               k < l => IsPrefix(file_writes[k], file_writes[l])
     /\ result_file = IF file_writes = <<>> THEN <<>>
                      ELSE file_writes[Len(file_writes)]
     /\ \A k \in 1..Len(result_file) :
          \A l \in 1..Len(result_file) :
            k < l => result_file[k].itr < result_file[l].itr

C11_Witness ==
  /\ pc = "done" /\ itr = 3 /\ cfg.log_freq = 2
  /\ Len(file_writes) = 2
  /\ Len(file_writes[1]) = 1 /\ Len(file_writes[2]) = 3
  /\ result_file = run_results

\* C12: the in-memory list gets a record only in iterations whose index is a
\* multiple of log_freq (the other iterations add nothing), and every record
\* of the list carries the iteration index, the metrics of its iteration's
\* mode and the elapsed time.
C12_RecordsOnlyWhenLogging ==
  /\ Len(run_results) = Cardinality(LoggedIterations)
  /\ \A k \in 1..Len(run_results) :
       LET r == run_results[k]
       IN /\ r.itr % cfg.log_freq = 0
          /\ {"itr", "time"} \subseteq r.keys
          /\ IF r.itr % cfg.val_freq = 0 /\ ~cfg.force_train
             THEN {"eval_success_rate", "eval_episode_reward", "eval_best_reward"}
                    \subseteq r.keys
             ELSE {"loss", "train_episode_reward"} \subseteq r.keys

\* the rows of this iteration's buffers, per environment
BufferRows(trajs) ==
  {[row |-> trajs[t], env |-> e] : t \in 1..Len(trajs), e \in Envs(cfg)}

\* C13: every transition passed to the loss in iteration i comes from the
\* rollout of iteration i: its observation and sampled chunk are rows of this
\* iteration's buffers, its weight is built from this iteration's rewards, and
\* the return behind the weight has been normalised exactly once.
C13_FreshData ==
  (loss_calls > 0 /\ pc \in {"epoch", "batch", "finish"}) =>
    \A j \in 1..Len(last_call.obs) :
      /\ last_call.obs[j] \in BufferRows(obs_trajs)
      /\ last_call.samples[j] \in BufferRows(samples_trajs)
      /\ last_call.samples[j].row.itr = itr
      /\ last_call.weights[j].weight_of.rew.itr = itr
      /\ last_call.weights[j].weight_of.norm = 1

\* ---- Return Computer on numbers (lines 150-163) ------------------------------
\* The rollout loop above carries rewards as tags.  Here the rewards are
\* integers, gamma is a fraction <<numerator, denominator>>, and lines 150-163
\* are computed on them as the code computes them.
MaxReward == 2
MaxRows == 4

RECURSIVE Gcd(_, _)
Gcd(a, b) == IF b = 0 THEN a ELSE Gcd(b, a % b)

Abs(x) == IF x < 0 THEN -x ELSE x

\* a fraction in lowest terms, denominator positive
Frac(n, d) ==
  LET g == Gcd(Abs(n), Abs(d))
      s == IF d < 0 THEN -1 ELSE 1
  IN <<(s * n) \div g, (s * d) \div g>>

FAdd(x, y) == Frac(x[1] * y[2] + y[1] * x[2], x[2] * y[2])
FMul(x, y) == Frac(x[1] * y[1], x[2] * y[2])

RECURSIVE IPow(_, _)
IPow(b, e) == IF e = 0 THEN 1 ELSE b * IPow(b, e - 1)

\* gamma ** t (0 ** 0 is 1 in Python)
FPow(x, t) == Frac(IPow(x[1], t), IPow(x[2], t))

Gammas == {<<0, 1>>, <<1, 2>>, <<2, 3>>, <<1, 1>>}

\* Discounted with the exponent counted from 1
DiscountedFromOne(gamma, rs) ==
  [j \in 1..Len(rs) |-> FMul(FPow(gamma, j), <<rs[j], 1>>)]

\* lines 151-157: gamma**t * r for t, r in zip(range(end - start + 1), rewards)
Discounted(gamma, rs) ==
  [j \in 1..Len(rs) |-> FMul(FPow(gamma, j - 1), <<rs[j], 1>>)]

\* y[::-1]
Reverse(s) == [j \in 1..Len(s) |-> s[Len(s) + 1 - j]]

\* np.cumsum: a running sum from the left
RECURSIVE CumSumFrom(_, _, _)
CumSumFrom(s, k, acc) ==
  IF k > Len(s) THEN <<>>
  ELSE <<FAdd(acc, s[k])>> \o CumSumFrom(s, k + 1, FAdd(acc, s[k]))

CumSum(s) == CumSumFrom(s, 1, <<0, 1>>)

\* reward_trajs[start : end + 1, env_ind]
RewardsOf(rewards, ep) ==
  LET rows == Slice(rewards, ep[2], ep[3] + 1)
  IN [j \in 1..Len(rows) |-> rows[j][ep[1]]]

\* lines 150-163: per segment, discount and reverse-cumsum; then concatenate
NumericReturns(rewards, eps, gamma) ==
  Concatenate([k \in 1..Len(eps) |->
                 Reverse(CumSum(Reverse(Discounted(gamma, RewardsOf(rewards, eps[k])))))])

\* one environment over every horizon, two environments over the shortest
\* horizon that holds a segment
ReturnConfigs ==
  { [n_envs |-> 1, n_steps |-> ns, gamma |-> g] : ns \in 1..MaxRows, g \in Gammas }
  \cup { [n_envs |-> 2, n_steps |-> 2, gamma |-> g] : g \in Gammas }

\* the locals and fields the Return Computer does not touch
Untouched ==
  <<error, itr, bound, done_venv, last_itr_eval, eval_mode, options_venv,
    prev_obs_venv, obs_trajs, samples_trajs, step, obs_trajs_split,
    samples_trajs_split, obs_k, samples_k, total_steps, inds_k, epoch,
    num_batch, batch, loss, model_mode, params, sched_steps, saved_at,
    run_results, result_file, file_writes, reset_calls, loss_calls, opt_steps,
    last_call, epoch_batches, params_begin, executed>>

UntouchedInit ==
  /\ error = "" /\ itr = 0 /\ bound = {"done_venv"}
  /\ done_venv = Zeros(cfg) /\ last_itr_eval = FALSE /\ eval_mode = FALSE
  /\ options_venv = [e \in Envs(cfg) |-> <<>>]
  /\ prev_obs_venv = NoObs /\ obs_trajs = <<>> /\ samples_trajs = <<>>
  /\ obs_trajs_split = <<>> /\ samples_trajs_split = <<>>
  /\ obs_k = <<>> /\ samples_k = <<>> /\ total_steps = 0
  /\ inds_k = <<>> /\ epoch = 0 /\ num_batch = 0 /\ batch = 0 /\ loss = NoLoss
  /\ model_mode = "train" /\ params = 0 /\ sched_steps = 0 /\ saved_at = <<>>
  /\ run_results = <<>> /\ result_file = <<>> /\ file_writes = <<>>
  /\ reset_calls = <<>>
  /\ loss_calls = 0 /\ opt_steps = 0 /\ last_call = NoCall /\ epoch_batches = <<>>
  /\ params_begin = 0 /\ executed = <<>>

\* the state at line 125 after a rollout with any boundaries and any rewards
InitReturns ==
  /\ cfg \in ReturnConfigs
  /\ pc = "rollout" /\ step = cfg.n_steps
  /\ firsts_trajs \in [0..cfg.n_steps -> [Envs(cfg) -> {0, 1}]]
  /\ reward_trajs \in [1..cfg.n_steps -> [Envs(cfg) -> 0..MaxReward]]
  /\ episodes_start_end = <<>> /\ num_episode_finished = 0
  /\ returns_trajs_split = <<>> /\ rewards_k_scaled = <<>>
  /\ UntouchedInit

\* lines 125-132
SegmentRewards ==
  /\ pc = "rollout"
  /\ episodes_start_end' = EpisodesStartEnd(firsts_trajs, cfg.n_envs, cfg.n_steps)
  /\ num_episode_finished' = Len(episodes_start_end')
  /\ pc' = IF Len(episodes_start_end') > 0 THEN "returns" ELSE "update"
  /\ UNCHANGED <<cfg, firsts_trajs, reward_trajs, returns_trajs_split,
                 rewards_k_scaled, Untouched>>

\* lines 133, 150-163
ComputeReturns ==
  /\ pc = "returns"
  /\ returns_trajs_split' = NumericReturns(reward_trajs, episodes_start_end, cfg.gamma)
  /\ pc' = "update"
  /\ UNCHANGED <<cfg, firsts_trajs, reward_trajs, episodes_start_end,
                 num_episode_finished, rewards_k_scaled, Untouched>>

NextReturns == SegmentRewards \/ ComputeReturns

ReturnSpec == InitReturns /\ [][NextReturns]_vars

\* the position in the concatenated vector where segment k begins (0-based)
OffsetOf(eps, k) == SegmentLengths(SubSeq(eps, 1, k - 1))

\* sum over j in i..n of gamma^j * r_j with r the rewards at rows start..end of
\* column env, j counted from start, over the common denominator gd^n
ExpectedReturn(env, start, end, i) ==
  LET n == end - start
      gn == cfg.gamma[1]
      gd == cfg.gamma[2]
      term[j \in 0..n] == reward_trajs[start + j + 1][env] * IPow(gn, j) * IPow(gd, n - j)
      sum[j \in i..n] == IF j = n THEN term[n] ELSE term[j] + sum[j + 1]
  IN Frac(sum[i], IPow(gd, n))

ReturnsComputed == pc = "update" /\ Len(episodes_start_end) > 0

\* C14: the value at position i of a segment is the sum over j in i..n of
\* gamma^j * r_j, j counted from the segment's own start, a function of that
\* segment's rewards alone; rewards [1,1,1] with gamma 1/2 give 7/4, 3/4, 1/4.
C14_Returns ==
  ReturnsComputed =>
    /\ Len(returns_trajs_split) = SegmentLengths(episodes_start_end)
    /\ \A k \in 1..Len(episodes_start_end) :
         LET ep == episodes_start_end[k]
         IN \A i \in 0..(ep[3] - ep[2]) :
              /\ returns_trajs_split[OffsetOf(episodes_start_end, k) + i + 1]
                   = ExpectedReturn(ep[1], ep[2], ep[3], i)
              /\ (cfg.gamma = <<1, 2>> /\ ep[3] - ep[2] = 2
                  /\ RewardsOf(reward_trajs, ep) = <<1, 1, 1>>)
                   => returns_trajs_split[OffsetOf(episodes_start_end, k) + i + 1]
                        = <<7 - 4 * i + (IF i = 2 THEN 2 ELSE 0), 4>>

\* two segments of one environment: the exponent restarts at the second
C14_Witness ==
  /\ ReturnsComputed /\ cfg.gamma = <<1, 2>> /\ cfg.n_envs = 1
  /\ episodes_start_end = << <<0, 0, 1>>, <<0, 2, 3>> >>
  /\ RewardsOf(reward_trajs, episodes_start_end[1]) = <<2, 0>>
  /\ RewardsOf(reward_trajs, episodes_start_end[2]) = <<1, 1>>
  /\ returns_trajs_split = <<<<2, 1>>, <<0, 1>>, <<3, 2>>, <<1, 2>>>>

\* ---- Reward Weighter on numbers (lines 204-216) ------------------------------
\* Returns are integers; a normalised return and an exponent are held in
\* thousandths (Milli of them make 1), so the 1e-3 of line 206 is one unit.
\* A weight exp(y) is held by its exponent y.  rewards_k is float32 (.float(),
\* line 210), so torch.exp gives 0 below ln(2^-150) = -103.972.. and inf above
\* ln(FLT_MAX) = 88.722...  The normalised return of a vector of N elements
\* goes down to -sqrt(N - 1); the vectors here are short, so Betas goes up to
\* where beta * sqrt(N - 1) passes the float32 range, as a longer vector does
\* with a smaller beta.
MaxReturn == 2
MaxVector == 3
Milli == 1000
Epsilon == 1
ExpUnderflowMilli == 103972
ExpOverflowMilli == 88722

Betas == {1, 10, 100}
MaxWeights == {<<1, 2>>, <<1, 1>>, <<100, 1>>}

\* floor(1000 * ln(m)) of the maximum weights above
LnMilli(m) == CASE m = <<1, 2>> -> -694
                [] m = <<1, 1>> -> 0
                [] m = <<100, 1>> -> 4605

RECURSIVE Sum(_)
Sum(s) == IF s = <<>> THEN 0 ELSE Head(s) + Sum(Tail(s))

\* floor of the square root, by bisection on lo..hi
RECURSIVE ISqrtIn(_, _, _)
ISqrtIn(v, lo, hi) ==
  IF lo >= hi THEN lo
  ELSE LET mid == (lo + hi + 1) \div 2
       IN IF mid * mid <= v THEN ISqrtIn(v, mid, hi) ELSE ISqrtIn(v, lo, mid - 1)

ISqrt(v) == ISqrtIn(v, 0, 46340)

\* N * (x - np.mean(x)), elementwise
Deviations(xs) == [j \in 1..Len(xs) |-> Len(xs) * xs[j] - Sum(xs)]

\* x.std() in thousandths: the root of the mean squared deviation
StdMilli(xs) ==
  LET n == Len(xs)
      d == Deviations(xs)
  IN ISqrt((Sum([j \in 1..n |-> d[j] * d[j]]) * Milli * Milli) \div (n * n * n))

\* lines 204-206 on the vector; every element keeps the return it came from
NormalizeReturns(rets) ==
  LET xs == [j \in 1..Len(rets) |-> rets[j].from]
      d == Deviations(xs)
      den == StdMilli(xs) + Epsilon
  IN [j \in 1..Len(rets) |->
        [from |-> rets[j].from, value |-> (d[j] * Milli * Milli) \div (Len(xs) * den)]]

\* line 215: torch.exp(beta * rewards_k) in float32
Exp32(y) == IF y < -ExpUnderflowMilli THEN "zero"
            ELSE IF y > ExpOverflowMilli THEN "inf" ELSE "exp"

ScaleRewards(beta, rewards_k) ==
  [j \in 1..Len(rewards_k) |->
     [from |-> rewards_k[j].from, y |-> beta * rewards_k[j].value,
      kind |-> Exp32(beta * rewards_k[j].value)]]

\* Clamp that leaves the tensor as it is
ClampNothing(w, m) == w

\* line 216: clamp_(max=max_reward_weight) on one element
Clamp(w, m) ==
  IF w.kind = "inf" \/ (w.kind = "exp" /\ w.y > LnMilli(m))
  THEN [w EXCEPT !.kind = "max"] ELSE w

WeightConfigs ==
  { [n_envs |-> 1, n_steps |-> 1, beta |-> b, max_reward_weight |-> m] :
      b \in Betas, m \in MaxWeights }

\* the state at line 204 of a training iteration with any vector of returns
InitWeights ==
  /\ cfg \in WeightConfigs
  /\ pc = "normalize" /\ step = cfg.n_steps
  /\ firsts_trajs = [t \in 0..cfg.n_steps |-> Zeros(cfg)]
  /\ reward_trajs = <<>>
  /\ episodes_start_end = <<>> /\ num_episode_finished = 0
  /\ \E n \in 1..MaxVector :
       returns_trajs_split \in
         [1..n -> {[from |-> r, value |-> r * Milli] : r \in 0..MaxReturn}]
  /\ rewards_k_scaled = <<>>
  /\ UntouchedInit

\* lines 204-213
NormalizeStep ==
  /\ pc = "normalize"
  /\ returns_trajs_split' = NormalizeReturns(returns_trajs_split)
  /\ pc' = "exp"
  /\ UNCHANGED <<cfg, firsts_trajs, reward_trajs, episodes_start_end,
                 num_episode_finished, rewards_k_scaled, Untouched>>

\* line 215
ExpStep ==
  /\ pc = "exp"
  /\ rewards_k_scaled' = ScaleRewards(cfg.beta, returns_trajs_split)
  /\ pc' = "clamp"
  /\ UNCHANGED <<cfg, firsts_trajs, reward_trajs, episodes_start_end,
                 num_episode_finished, returns_trajs_split, Untouched>>

\* line 216
ClampStep ==
  /\ pc = "clamp"
  /\ rewards_k_scaled' =
       [j \in 1..Len(rewards_k_scaled) |->
          Clamp(rewards_k_scaled[j], cfg.max_reward_weight)]
  /\ pc' = "weighted"
  /\ UNCHANGED <<cfg, firsts_trajs, reward_trajs, episodes_start_end,
                 num_episode_finished, returns_trajs_split, Untouched>>

NextWeights == NormalizeStep \/ ExpStep \/ ClampStep

WeightSpec == InitWeights /\ [][NextWeights]_vars

Weighted == pc = "weighted"

\* the vector the weights were computed from is constant
AllEqualReturns ==
  \A j \in 1..Len(rewards_k_scaled) : rewards_k_scaled[j].from = rewards_k_scaled[1].from

\* what the claim says of the bounds, the epsilon guard and the clamp
WeightBoundsAndClamp ==
  /\ \A j \in 1..Len(rewards_k_scaled) :
       LET w == rewards_k_scaled[j]
       IN /\ w.kind \in {"zero", "exp", "max"}
          /\ w.kind = "exp" => w.y <= LnMilli(cfg.max_reward_weight)
          /\ w.y > LnMilli(cfg.max_reward_weight) => w.kind = "max"
  /\ AllEqualReturns =>
       \A j \in 1..Len(rewards_k_scaled) :
         /\ returns_trajs_split[j].value = 0
         /\ rewards_k_scaled[j].y = 0
         /\ rewards_k_scaled[j].kind =
              (IF LnMilli(cfg.max_reward_weight) < 0 THEN "max" ELSE "exp")

\* C15 as stated: every weight is strictly positive, finite and at most the
\* maximum; a constant or one-element vector normalises to zeros and gets the
\* weight min(1, max); an exp above the maximum gives exactly the maximum.
C15_PositiveWeights ==
  Weighted =>
    /\ WeightBoundsAndClamp
    /\ \A j \in 1..Len(rewards_k_scaled) : rewards_k_scaled[j].kind # "zero"

\* C15, amended: every weight is non-negative, finite and at most the maximum,
\* and strictly positive unless beta * normalized_return is below the float32
\* range of exp, where the weight is 0; the rest as stated.
C15_Weights ==
  Weighted =>
    /\ WeightBoundsAndClamp
    /\ \A j \in 1..Len(rewards_k_scaled) :
         rewards_k_scaled[j].kind = "zero"
           <=> rewards_k_scaled[j].y < -ExpUnderflowMilli

\* [0, 1, 1] with beta 100: the low return underflows, the others are clamped
C15_Witness ==
  /\ Weighted /\ cfg.beta = 100 /\ cfg.max_reward_weight = <<100, 1>>
  /\ [j \in 1..Len(rewards_k_scaled) |-> rewards_k_scaled[j].from] = <<0, 1, 1>>
  /\ rewards_k_scaled[1].kind = "zero" /\ rewards_k_scaled[1].y < -ExpUnderflowMilli
  /\ rewards_k_scaled[2].kind = "max" /\ rewards_k_scaled[2].y > 0
  /\ rewards_k_scaled[3].kind = "max"

\* the collection loop of the current iteration, k = step steps done
Collecting == pc = "rollout"

RolloutShape ==
  Collecting =>
    /\ step \in 0..cfg.n_steps
    /\ Len(obs_trajs) = step /\ Len(samples_trajs) = step /\ Len(reward_trajs) = step
    /\ \A k \in 1..step :
         /\ samples_trajs[k] = [itr |-> itr, step |-> k - 1, deterministic |-> eval_mode]
         /\ reward_trajs[k] = [itr |-> itr, step |-> k - 1]
    /\ DOMAIN firsts_trajs = 0..cfg.n_steps
    /\ \A t \in 0..cfg.n_steps : DOMAIN firsts_trajs[t] = Envs(cfg)
    /\ step >= 1 => firsts_trajs[step] = done_venv

\* one step of the loop: one sampling on the current observations, then one
\* environment step whose done vector goes to the next boundary row
RolloutAdvance ==
  (Collecting /\ pc' = "rollout" /\ step' # step) =>
    /\ step' = step + 1
    /\ obs_trajs' = Append(obs_trajs, prev_obs_venv)
    /\ SubSeq(samples_trajs', 1, step) = samples_trajs
    /\ SubSeq(reward_trajs', 1, step) = reward_trajs
    /\ firsts_trajs'[step + 1] = done_venv'
    /\ \A t \in 0..cfg.n_steps : t # step + 1 => firsts_trajs'[t] = firsts_trajs[t]

\* C16: after k steps of the collection loop the observation, sample and
\* reward buffers hold k rows each, one sampling and one environment step per
\* row and in that order, the boundary array has n_steps + 1 rows of n_envs
\* entries, boundary row k + 1 is the done vector step k returned, and the
\* buffers are empty when an iteration's loop begins.
C16_RolloutBuffers == [](RolloutShape) /\ [][RolloutAdvance]_vars

\* the second iteration's loop is over, with a different done vector per step
C16_Witness ==
  /\ Collecting /\ itr = 1 /\ cfg.n_envs = 2 /\ step = cfg.n_steps /\ step = 2
  /\ Len(obs_trajs) = 2 /\ Len(samples_trajs) = 2 /\ Len(reward_trajs) = 2
  /\ firsts_trajs[1] # firsts_trajs[2] /\ firsts_trajs[2] = done_venv

\* the recordings the environment has been asked for in the current iteration:
\* the video paths in the options of its reset calls
Requested ==
  {<<e, reset_calls[k][e]>> : k \in 1..Len(reset_calls), e \in Envs(cfg)}
    \ {<<e, <<>>>> : e \in Envs(cfg)}

\* the iteration with index itr is past its start (lines 58-93)
IterationBegun == pc \in {"rollout", "update", "epoch", "batch", "finish"}

\* C17: in an iteration i with rendering enabled and i mod render_freq = 0
\* the environment is asked for a recording of each of the first n_render
\* environments, at the path of (i, environment), and of no other; in any
\* other iteration for none; with or without a reset at the iteration start.
C17_Recordings ==
  IterationBegun =>
    Requested =
      (IF cfg.render_video /\ itr % cfg.render_freq = 0
       THEN {<<e, <<itr, e>>>> : e \in {x \in Envs(cfg) : x < cfg.n_render}}
       ELSE {})

\* the steps a segment covers
StepsOf(ep) == ep[2]..ep[3]

\* C18: every emitted segment (env, start, end) has 0 <= start < end <= H - 1,
\* a marker at start and at end + 1 and none in between; the segments of one
\* environment are pairwise disjoint; and no step before the environment's
\* first marker, or at or after its last one, is in a segment.
C18_SegmentsWellFormed ==
  (pc \in {"update", "epoch", "batch", "finish"}) =>
    LET eps == episodes_start_end
        H == cfg.n_steps
    IN /\ \A k \in 1..Len(eps) :
            LET env == eps[k][1]
                start == eps[k][2]
                end == eps[k][3]
            IN /\ env \in Envs(cfg)
               /\ 0 <= start /\ start < end /\ end <= H - 1
               /\ firsts_trajs[start][env] = 1
               /\ firsts_trajs[end + 1][env] = 1
               /\ \A t \in (start + 1)..end : firsts_trajs[t][env] = 0
       /\ \A k, l \in 1..Len(eps) :
            (k # l /\ eps[k][1] = eps[l][1]) => StepsOf(eps[k]) \cap StepsOf(eps[l]) = {}
       /\ \A e \in Envs(cfg) : \A t \in 0..(H - 1) :
            (\/ \A m \in Markers(e) : t < m
             \/ \A m \in Markers(e) : t >= m)
              => ~\E k \in 1..Len(eps) : eps[k][1] = e /\ t \in StepsOf(eps[k])

\* markers at rows 0, 2 and 5 of 0..6: two segments, and step 5 is cut off
C18_Witness ==
  /\ pc = "update" /\ cfg.n_envs = 1 /\ cfg.n_steps = 6
  /\ Markers(0) = {0, 2, 5}
  /\ episodes_start_end = << <<0, 0, 1>>, <<0, 2, 4>> >>

\* C19: in every configuration the first iteration decides reset or carry on
\* assigned state and resets before the first sampling, which is conditioned
\* on the observations the reset returned; and no iteration reads
\* last_itr_eval, prev_obs_venv or loss before the run has assigned it.
C19_FirstIterationDefined ==
  /\ error \notin {"UnboundLocalError: last_itr_eval",
                   "UnboundLocalError: prev_obs_venv",
                   "UnboundLocalError: loss"}
  /\ (itr = 0 /\ pc = "rollout") =>
       /\ Len(reset_calls) = 1
       /\ "prev_obs_venv" \in bound
       /\ step = 0 => prev_obs_venv = ResetObs(0)
       /\ step > 0 => obs_trajs[1] = ResetObs(0)

====
